---- MODULE Spec2Model ----
(***************************************************************************)
(* DocuMind (ai-doc-manager): the relational store and the RPC handlers   *)
(* that read and write it.  Each handler is one action; the request it    *)
(* served and the value it returned (or the error it threw) are kept in   *)
(* lastCall and result.                                                    *)
(***************************************************************************)
EXTENDS Integers, Sequences, FiniteSets, TLC

(* ---------------------------------------------------------------------- *)
(* Bounds                                                                  *)
(* ---------------------------------------------------------------------- *)
MaxInserts == 6
MaxDocumentInserts == 3
MaxClockInserts == 2
MaxSourceInserts == 5
MaxSourceDeleteInserts == 4
MaxListingInserts == 4
MaxResponseInserts == 4
MaxRouterInserts == 3
MaxEditorInserts == 2
MaxEditorTime == 2
MaxInFlight == 2
MaxSaveTime == 2
MaxSwitchDocuments == 2
MaxSwitchTime == 2
MaxSwitchInFlight == 1
MaxAssistResponses == 1
MaxAssistContentLen == 460
MaxAssistTime == 2
MaxAssistInFlight == 1
MaxRaceInserts == 5
MaxRunning == 2
MaxTemplateInserts == 4
MaxProcedureInserts == 4
MaxSaveInFlight == 2
MaxTime == 2

(* ---------------------------------------------------------------------- *)
(* Input domains                                                           *)
(* ---------------------------------------------------------------------- *)
Emails == {"u1@x.io", "u2@x.io"}
Names == {"Demo"}
Titles == {"A", "B"}
Contents == {"", "x"}
SourceTitles == {"S"}
SourceContents == {"src"}
Urls == {"https://e.x/a"}
Prompts == {"p"}
Contexts == {"sel"}

UserIds == 1..2
DocIds == 1..2
SourceIds == 1..2
Limits == 1..2
Offsets == 0..2

(* JavaScript values of the optional and nullable request fields *)
JsUndefined == [type |-> "undefined"]
JsNull == [type |-> "null"]
JsString(s) == [type |-> "string", value |-> s]
JsDate(t) == [type |-> "date", value |-> t]
JsNumber(n) == [type |-> "number", value |-> n]

(* x || y: x when x is truthy, otherwise y *)
JsOr(x, y) ==
  IF x.type \in {"undefined", "null"} \/ (x.type = "string" /\ x.value = "")
  THEN y ELSE x

(* the enum domains *)
sourceTypeEnum == {"url", "file", "text"}
assistanceTypeEnum == {"write", "edit", "study_guide", "summarize"}

(* the request shapes accepted by the input schemas *)
createUserInputSchema == [email : Emails, name : Names]
createDocumentInputSchema == [title : Titles, content : Contents, user_id : UserIds]
getDocumentsInputSchema == [user_id : UserIds, limit : Limits, offset : Offsets]
getDocumentInputSchema == [id : DocIds, user_id : UserIds]
updateDocumentInputSchema ==
  [id : DocIds,
   title : {JsUndefined} \cup {JsString(t) : t \in Titles},
   content : {JsUndefined} \cup {JsString(c) : c \in Contents}]
deleteDocumentInputSchema == [id : DocIds, user_id : UserIds]
createSourceInputSchema ==
  [document_id : DocIds, title : SourceTitles, content : SourceContents,
   source_type : sourceTypeEnum,
   source_url : {JsUndefined, JsNull} \cup {JsString(u) : u \in Urls}]
getSourcesInputSchema == [document_id : DocIds]
deleteSourceInputSchema == [id : SourceIds, document_id : DocIds]
aiAssistanceRequestSchema ==
  [document_id : DocIds, prompt : Prompts,
   context : {JsUndefined} \cup {JsString(c) : c \in Contexts},
   assistance_type : assistanceTypeEnum]

(* ---------------------------------------------------------------------- *)
(* State                                                                   *)
(* ---------------------------------------------------------------------- *)
VARIABLES
  usersTable,                  \* rows of table users
  documentsTable,              \* rows of table documents
  sourcesTable,                \* rows of table sources
  aiAssistanceResponsesTable,  \* rows of table ai_assistance_responses
  users_id_seq,                \* last value of each serial primary key
  documents_id_seq,
  sources_id_seq,
  ai_id_seq,
  now,                         \* the clock read by new Date() and now()
  lastCall,                    \* the request served by the latest step
  result,                      \* what that request returned or threw
  selectedDocument,            \* App: the document shown in the editor, or null
  content,                     \* DocumentEditor: its state
  title,
  isSaving,
  lastSaved,
  hasUnsavedChanges,
  timeoutId,                   \* the timeout the auto-save effect set last
  timers,                      \* the pending timeouts, by the time they are due
  inFlight,                    \* the updateDocument calls awaiting their reply
  lastEdit,                    \* when title or content was last edited
  running                      \* the handler calls between their lookup and their insert

tables == <<usersTable, documentsTable, sourcesTable, aiAssistanceResponsesTable>>
seqs == <<users_id_seq, documents_id_seq, sources_id_seq, ai_id_seq>>
editor == <<selectedDocument, content, title, isSaving, lastSaved, hasUnsavedChanges,
            timeoutId, timers, inFlight, lastEdit>>
vars == <<tables, seqs, now, lastCall, result, editor, running>>

(* a handler's outcome *)
Ok(v) == [tag |-> "ok", val |-> v]
Null == [tag |-> "null"]
(* an error and its message, as the list of its literal and interpolated parts *)
Err(m) == [tag |-> "error", msg |-> m]

Call(op, input) == [op |-> op, input |-> input]

Init ==
  /\ usersTable = {}
  /\ documentsTable = {}
  /\ sourcesTable = {}
  /\ aiAssistanceResponsesTable = {}
  /\ users_id_seq = 0
  /\ documents_id_seq = 0
  /\ sources_id_seq = 0
  /\ ai_id_seq = 0
  /\ now = 0
  /\ lastCall = [op |-> "none"]
  /\ result = [tag |-> "none"]
  /\ selectedDocument = Null
  /\ content = ""
  /\ title = ""
  /\ isSaving = FALSE
  /\ lastSaved = JsNull
  /\ hasUnsavedChanges = FALSE
  /\ timeoutId = JsNull
  /\ timers = {}
  /\ inFlight = <<>>
  /\ lastEdit = JsNull
  /\ running = {}

(* the rows inserted so far, in all tables: the model stops inserting at MaxInserts *)
Inserts == users_id_seq + documents_id_seq + sources_id_seq + ai_id_seq

(* ---------------------------------------------------------------------- *)
(* Store constraints                                                       *)
(* ---------------------------------------------------------------------- *)
(* users.email is unique *)
(* faulty variant: the column declared without unique() *)
emailUnique_notDeclared(email) == TRUE

emailUnique(email) == \A u \in usersTable : u.email # email

(* documents.user_id references users.id *)
documentsUserFk(user_id) == \E u \in usersTable : u.id = user_id

(* sources.document_id, ai_assistance_responses.document_id reference documents.id *)
(* faulty variant: the columns declared without references() *)
documentFk_notDeclared(document_id) == TRUE

documentFk(document_id) == \E d \in documentsTable : d.id = document_id

(* faulty variant: the foreign keys declared without ON DELETE CASCADE *)
onDeleteCascade_noAction(rows, ids) == rows

(* ON DELETE CASCADE: the rows that survive the deletion of documents ids *)
onDeleteCascade(rows, ids) == {r \in rows : r.document_id \notin ids}

(* ---------------------------------------------------------------------- *)
(* Time                                                                    *)
(* ---------------------------------------------------------------------- *)
(* new Date() in the handlers and now() in the store read one clock that   *)
(* never goes back.  Time passes between two requests, or does not: two    *)
(* requests can read the same millisecond.                                 *)
Tick ==
  /\ now' = now + 1
  /\ lastCall' = Call("tick", <<>>)
  /\ result' = [tag |-> "none"]
  /\ UNCHANGED <<tables, seqs>>

(* ---------------------------------------------------------------------- *)
(* createUser                                                              *)
(* ---------------------------------------------------------------------- *)
createUser(input) ==
  /\ users_id_seq' = users_id_seq + 1
  /\ IF emailUnique(input.email)
     THEN LET row == [id |-> users_id_seq + 1, email |-> input.email,
                      name |-> input.name, created_at |-> now]
          IN /\ usersTable' = usersTable \cup {row}
             /\ result' = Ok(row)
     ELSE /\ usersTable' = usersTable
          /\ result' = Err(<<"duplicate key value violates unique constraint">>)
  /\ lastCall' = Call("createUser", input)
  /\ UNCHANGED <<documentsTable, sourcesTable, aiAssistanceResponsesTable,
                 documents_id_seq, sources_id_seq, ai_id_seq, now>>

(* ---------------------------------------------------------------------- *)
(* createDocument                                                          *)
(* ---------------------------------------------------------------------- *)
(* faulty variant: the user lookup without its where clause *)
createDocumentSelectUser_noWhere(input) == usersTable

createDocumentSelectUser(input) == {u \in usersTable : u.id = input.user_id}

createDocument(input) ==
  /\ IF createDocumentSelectUser(input) = {}
     THEN /\ result' = Err(<<"User not found">>)
          /\ UNCHANGED <<documentsTable, documents_id_seq>>
     ELSE /\ documents_id_seq' = documents_id_seq + 1
          /\ IF documentsUserFk(input.user_id)
             THEN LET row == [id |-> documents_id_seq + 1, title |-> input.title,
                              content |-> input.content, user_id |-> input.user_id,
                              created_at |-> now, updated_at |-> now]
                  IN /\ documentsTable' = documentsTable \cup {row}
                     /\ result' = Ok(row)
             ELSE /\ documentsTable' = documentsTable
                  /\ result' = Err(<<"violates foreign key constraint">>)
  /\ lastCall' = Call("createDocument", input)
  /\ UNCHANGED <<usersTable, sourcesTable, aiAssistanceResponsesTable,
                 users_id_seq, sources_id_seq, ai_id_seq, now>>

(* ---------------------------------------------------------------------- *)
(* getDocuments                                                            *)
(* ---------------------------------------------------------------------- *)
(* faulty variant: the listing without its where clause *)
getDocumentsWhere_allUsers(d, input) == TRUE

getDocumentsWhere(d, input) == d.user_id = input.user_id

(* sequences that list every row of rows once, latest updated_at first;   *)
(* the query names no second sort key, so rows with equal updated_at come  *)
(* in any order, and not in the same order from one query to the next      *)
orderByUpdatedAtDesc(rows) ==
  {q \in [1..Cardinality(rows) -> rows] :
     /\ \A i, j \in 1..Cardinality(rows) : i # j => q[i] # q[j]
     /\ \A i, j \in 1..Cardinality(rows) : i < j => q[i].updated_at >= q[j].updated_at}

(* LIMIT limit OFFSET offset: skip offset rows, keep at most limit *)
limitOffset(q, limit, offset) ==
  [i \in 1..(IF Len(q) - offset < 0 THEN 0
             ELSE IF Len(q) - offset < limit THEN Len(q) - offset ELSE limit)
     |-> q[offset + i]]

getDocuments(input) ==
  /\ LET rows == {d \in documentsTable : getDocumentsWhere(d, input)}
     IN \E q \in orderByUpdatedAtDesc(rows) :
          result' = Ok(limitOffset(q, input.limit, input.offset))
  /\ lastCall' = Call("getDocuments", input)
  /\ UNCHANGED <<tables, seqs, now>>

(* ---------------------------------------------------------------------- *)
(* getDocument                                                             *)
(* ---------------------------------------------------------------------- *)
(* faulty variant: the lookup filtered by id alone *)
getDocumentWhere_idOnly(d, input) == d.id = input.id

getDocumentWhere(d, input) == d.id = input.id /\ d.user_id = input.user_id

getDocument(input) ==
  /\ LET results == {d \in documentsTable : getDocumentWhere(d, input)}
     IN IF results = {}
        THEN result' = Null
        ELSE \E d \in results : result' = Ok(d)
  /\ lastCall' = Call("getDocument", input)
  /\ UNCHANGED <<tables, seqs, now>>

(* ---------------------------------------------------------------------- *)
(* updateDocument                                                          *)
(* ---------------------------------------------------------------------- *)
(* the update object: updated_at always, title and content only if given *)
(* faulty variant: an omitted content defaulted to the empty string *)
updateData_defaultContent(input, t) ==
  [updated_at |-> JsDate(t), title |-> input.title,
   content |-> IF input.content.type = "undefined" THEN JsString("") ELSE input.content]

(* faulty variant: updated_at left out of the update object *)
updateData_noTimestamp(input, t) ==
  [updated_at |-> JsUndefined, title |-> input.title, content |-> input.content]

updateData(input, t) ==
  [updated_at |-> JsDate(t), title |-> input.title, content |-> input.content]

(* UPDATE ... SET: a key whose value is undefined is not written *)
set(row, data) ==
  [row EXCEPT
     !.updated_at = IF data.updated_at.type = "undefined" THEN @ ELSE data.updated_at.value,
     !.title = IF data.title.type = "undefined" THEN @ ELSE data.title.value,
     !.content = IF data.content.type = "undefined" THEN @ ELSE data.content.value]

updateDocumentWhere(d, input) == d.id = input.id

(* what the handler returns for the rows the UPDATE returned *)
(* faulty variant: result[0] returned without the length check *)
updateDocumentReturn_noLengthCheck(returning) ==
  IF returning = {} THEN [tag |-> "undefined"] ELSE Ok(CHOOSE d \in returning : TRUE)

updateDocumentReturn(returning) ==
  IF returning = {} THEN Null ELSE Ok(CHOOSE d \in returning : TRUE)

updateDocument(input) ==
  /\ LET data == updateData(input, now)
         matched == {d \in documentsTable : updateDocumentWhere(d, input)}
         returning == {set(d, data) : d \in matched}
     IN /\ documentsTable' = (documentsTable \ matched) \cup returning
        /\ result' = updateDocumentReturn(returning)
  /\ lastCall' = Call("updateDocument", input)
  /\ UNCHANGED <<usersTable, sourcesTable, aiAssistanceResponsesTable, seqs, now>>

(* ---------------------------------------------------------------------- *)
(* deleteDocument                                                          *)
(* ---------------------------------------------------------------------- *)
(* faulty variant: the delete filtered by id alone *)
deleteDocumentWhere_idOnly(d, input) == d.id = input.id

deleteDocumentWhere(d, input) == d.id = input.id /\ d.user_id = input.user_id

deleteDocument(input) ==
  /\ LET returning == {d \in documentsTable : deleteDocumentWhere(d, input)}
         ids == {d.id : d \in returning}
     IN /\ documentsTable' = documentsTable \ returning
        /\ sourcesTable' = onDeleteCascade(sourcesTable, ids)
        /\ aiAssistanceResponsesTable' = onDeleteCascade(aiAssistanceResponsesTable, ids)
        /\ result' = Ok(returning # {})
  /\ lastCall' = Call("deleteDocument", input)
  /\ UNCHANGED <<usersTable, seqs, now>>

(* ---------------------------------------------------------------------- *)
(* createSource                                                            *)
(* ---------------------------------------------------------------------- *)
(* faulty variant: the document lookup without its where clause *)
createSourceSelectDocument_noWhere(input) == documentsTable

createSourceSelectDocument(input) == {d \in documentsTable : d.id = input.document_id}

(* the row the handler inserts, before the serial id and created_at *)
createSourceValues(input) ==
  [document_id |-> input.document_id, title |-> input.title,
   content |-> input.content, source_type |-> input.source_type,
   source_url |-> JsOr(input.source_url, JsNull)]

createSource(input) ==
  /\ IF createSourceSelectDocument(input) = {}
     THEN /\ result' = Err(<<"Document with id ", input.document_id, " not found">>)
          /\ UNCHANGED <<sourcesTable, sources_id_seq>>
     ELSE /\ sources_id_seq' = sources_id_seq + 1
          /\ IF documentFk(input.document_id)
             THEN LET v == createSourceValues(input)
                      row == [id |-> sources_id_seq + 1, document_id |-> v.document_id,
                              title |-> v.title, content |-> v.content,
                              source_type |-> v.source_type, source_url |-> v.source_url,
                              created_at |-> now]
                  IN /\ sourcesTable' = sourcesTable \cup {row}
                     /\ result' = Ok(row)
             ELSE /\ sourcesTable' = sourcesTable
                  /\ result' = Err(<<"violates foreign key constraint">>)
  /\ lastCall' = Call("createSource", input)
  /\ UNCHANGED <<usersTable, documentsTable, aiAssistanceResponsesTable,
                 users_id_seq, documents_id_seq, ai_id_seq, now>>

(* ---------------------------------------------------------------------- *)
(* getSources                                                              *)
(* ---------------------------------------------------------------------- *)
(* faulty variant: the existence check always passing *)
getSourcesDocumentExists_unchecked(input) == {input.document_id}

getSourcesDocumentExists(input) == {d.id : d \in {x \in documentsTable : x.id = input.document_id}}

getSourcesWhere(s, input) == s.document_id = input.document_id

(* the rows come back in no specified order: the result is their set *)
getSources(input) ==
  /\ IF getSourcesDocumentExists(input) = {}
     THEN result' = Err(<<"Document not found">>)
     ELSE result' = Ok({s \in sourcesTable : getSourcesWhere(s, input)})
  /\ lastCall' = Call("getSources", input)
  /\ UNCHANGED <<tables, seqs, now>>

(* ---------------------------------------------------------------------- *)
(* deleteSource                                                            *)
(* ---------------------------------------------------------------------- *)
(* faulty variant: the source matched by id alone *)
deleteSourceWhere_idOnly(s, input) == s.id = input.id

deleteSourceWhere(s, input) == s.id = input.id /\ s.document_id = input.document_id

(* rowCount of the DELETE, compared with 0 *)
deleteSource(input) ==
  /\ LET sourceQuery == {s \in sourcesTable : deleteSourceWhere(s, input)}
     IN IF sourceQuery = {}
        THEN /\ result' = Ok(FALSE)
             /\ sourcesTable' = sourcesTable
        ELSE LET deletedRows == {s \in sourcesTable : deleteSourceWhere(s, input)}
             IN /\ sourcesTable' = sourcesTable \ deletedRows
                /\ result' = Ok(Cardinality(deletedRows) > 0)
  /\ lastCall' = Call("deleteSource", input)
  /\ UNCHANGED <<usersTable, documentsTable, aiAssistanceResponsesTable, seqs, now>>

(* ---------------------------------------------------------------------- *)
(* requestAiAssistance                                                     *)
(* ---------------------------------------------------------------------- *)
(* the templated response, as the list of its literal and interpolated parts *)
aiResponseContent(input, document) ==
  CASE input.assistance_type = "write" ->
         <<"Based on your prompt \"", input.prompt,
           "\" and the document context, here's some content to help with your writing...">>
    [] input.assistance_type = "edit" ->
         <<"Here are some editing suggestions for your text: \"", input.prompt, "\"...">>
    [] input.assistance_type = "study_guide" ->
         <<"Study Guide based on \"", document.title,
           "\":\n\nKey Points:\n- Important concept 1\n- Important concept 2\n\nQuestions for Review:\n1. What is...?\n2. How does...?">>
    [] input.assistance_type = "summarize" ->
         <<"Summary of \"", document.title,
           "\":\n\nThis document covers the main topics of... The key insights include...">>
    [] OTHER -> <<"AI assistance response generated successfully.">>

(* the row the handler inserts, before the serial id and created_at *)
(* faulty variant: the generated content stored in place of the prompt *)
requestAiAssistanceValues_promptOverwritten(input, responseContent) ==
  [document_id |-> input.document_id, request_prompt |-> responseContent,
   response_content |-> responseContent, assistance_type |-> input.assistance_type]

requestAiAssistanceValues(input, responseContent) ==
  [document_id |-> input.document_id, request_prompt |-> input.prompt,
   response_content |-> responseContent, assistance_type |-> input.assistance_type]

(* the table after db.insert(aiAssistanceResponsesTable).values(row) *)
(* faulty variant: the insert replaces the document's earlier responses *)
insertAiResponse_replacing(row) ==
  {r \in aiAssistanceResponsesTable : r.document_id # row.document_id} \cup {row}

insertAiResponse(row) == aiAssistanceResponsesTable \cup {row}

requestAiAssistance(input) ==
  /\ LET documents == {d \in documentsTable : d.id = input.document_id}
     IN IF documents = {}
        THEN /\ result' = Err(<<"Document not found">>)
             /\ UNCHANGED <<aiAssistanceResponsesTable, ai_id_seq>>
        ELSE /\ ai_id_seq' = ai_id_seq + 1
             /\ IF documentFk(input.document_id)
                THEN \E document \in documents :
                       LET v == requestAiAssistanceValues(
                                  input, aiResponseContent(input, document))
                           row == [id |-> ai_id_seq + 1,
                                   document_id |-> v.document_id,
                                   request_prompt |-> v.request_prompt,
                                   response_content |-> v.response_content,
                                   assistance_type |-> v.assistance_type,
                                   created_at |-> now]
                       IN /\ aiAssistanceResponsesTable' = insertAiResponse(row)
                          /\ result' = Ok(row)
                ELSE /\ aiAssistanceResponsesTable' = aiAssistanceResponsesTable
                     /\ result' = Err(<<"violates foreign key constraint">>)
  /\ lastCall' = Call("requestAiAssistance", input)
  /\ UNCHANGED <<usersTable, documentsTable, sourcesTable,
                 users_id_seq, documents_id_seq, sources_id_seq, now>>

(* ---------------------------------------------------------------------- *)
(* getAiResponses                                                          *)
(* ---------------------------------------------------------------------- *)
(* sequences that list every row of rows once, newest created_at first;   *)
(* rows with equal created_at come in either order                         *)
(* faulty variant: orderBy(asc(created_at)) *)
orderByCreatedAtDesc_asc(rows) ==
  {q \in [1..Cardinality(rows) -> rows] :
     /\ \A i, j \in 1..Cardinality(rows) : i # j => q[i] # q[j]
     /\ \A i, j \in 1..Cardinality(rows) : i < j => q[i].created_at <= q[j].created_at}

orderByCreatedAtDesc(rows) ==
  {q \in [1..Cardinality(rows) -> rows] :
     /\ \A i, j \in 1..Cardinality(rows) : i # j => q[i] # q[j]
     /\ \A i, j \in 1..Cardinality(rows) : i < j => q[i].created_at >= q[j].created_at}

(* the router passes input.id and drops input.user_id *)
getAiResponses(input) ==
  /\ LET documentId == input.id
         rows == {r \in aiAssistanceResponsesTable : r.document_id = documentId}
     IN \E results \in orderByCreatedAtDesc(rows) : result' = Ok(results)
  /\ lastCall' = Call("getAiResponses", input)
  /\ UNCHANGED <<tables, seqs, now>>

(* ---------------------------------------------------------------------- *)
(* createSource and requestAiAssistance statement by statement: other     *)
(* requests are served between the lookup of the document and the insert   *)
(* ---------------------------------------------------------------------- *)
(* a call that found its document and has not inserted yet *)
Running(op, input, document) == [op |-> op, input |-> input, document |-> document]

createSourceLookup(input) ==
  /\ IF createSourceSelectDocument(input) = {}
     THEN /\ result' = Err(<<"Document with id ", input.document_id, " not found">>)
          /\ running' = running
     ELSE /\ result' = [tag |-> "none"]
          /\ \E document \in createSourceSelectDocument(input) :
               running' = running \cup {Running("createSource", input, document)}
  /\ lastCall' = Call("createSource", input)
  /\ UNCHANGED <<tables, seqs, now>>

createSourceInsert(call) ==
  /\ call.op = "createSource"
  /\ sources_id_seq' = sources_id_seq + 1
  /\ IF documentFk(call.input.document_id)
     THEN LET v == createSourceValues(call.input)
              row == [id |-> sources_id_seq + 1, document_id |-> v.document_id,
                      title |-> v.title, content |-> v.content,
                      source_type |-> v.source_type, source_url |-> v.source_url,
                      created_at |-> now]
          IN /\ sourcesTable' = sourcesTable \cup {row}
             /\ result' = Ok(row)
     ELSE /\ sourcesTable' = sourcesTable
          /\ result' = Err(<<"violates foreign key constraint">>)
  /\ running' = running \ {call}
  /\ lastCall' = Call("createSource", call.input)
  /\ UNCHANGED <<usersTable, documentsTable, aiAssistanceResponsesTable,
                 users_id_seq, documents_id_seq, ai_id_seq, now>>

requestAiAssistanceLookup(input) ==
  /\ LET documents == {d \in documentsTable : d.id = input.document_id}
     IN IF documents = {}
        THEN /\ result' = Err(<<"Document not found">>)
             /\ running' = running
        ELSE /\ result' = [tag |-> "none"]
             /\ \E document \in documents :
                  running' = running \cup {Running("requestAiAssistance", input, document)}
  /\ lastCall' = Call("requestAiAssistance", input)
  /\ UNCHANGED <<tables, seqs, now>>

requestAiAssistanceInsert(call) ==
  /\ call.op = "requestAiAssistance"
  /\ ai_id_seq' = ai_id_seq + 1
  /\ IF documentFk(call.input.document_id)
     THEN LET v == requestAiAssistanceValues(
                     call.input, aiResponseContent(call.input, call.document))
              row == [id |-> ai_id_seq + 1,
                      document_id |-> v.document_id,
                      request_prompt |-> v.request_prompt,
                      response_content |-> v.response_content,
                      assistance_type |-> v.assistance_type,
                      created_at |-> now]
          IN /\ aiAssistanceResponsesTable' = insertAiResponse(row)
             /\ result' = Ok(row)
     ELSE /\ aiAssistanceResponsesTable' = aiAssistanceResponsesTable
          /\ result' = Err(<<"violates foreign key constraint">>)
  /\ running' = running \ {call}
  /\ lastCall' = Call("requestAiAssistance", call.input)
  /\ UNCHANGED <<usersTable, documentsTable, sourcesTable,
                 users_id_seq, documents_id_seq, sources_id_seq, now>>

(* ---------------------------------------------------------------------- *)
(* The router: each procedure parses the request with its input schema     *)
(* and calls its handler with the parsed value                             *)
(* ---------------------------------------------------------------------- *)
(* getDocumentsInputSchema: limit is at most limitMax and limitDefault     *)
(* when left out, offset is offsetDefault when left out                    *)
limitMax == 100
limitDefault == 20
offsetDefault == 0

(* z.string().email(), z.string().url(): the strings they accept *)
isEmail(s) == s \in Emails
isUrl(s) == s \in Urls

(* z.string().min(1) *)
stringMin1(x) == x.type = "string" /\ x.value # ""

(* what the parser throws for a request its schema does not accept *)
BadRequest == Err(<<"BAD_REQUEST">>)

createUserInputParse(raw) ==
  IF /\ raw.email.type = "string" /\ isEmail(raw.email.value)
     /\ stringMin1(raw.name)
  THEN Ok([email |-> raw.email.value, name |-> raw.name.value])
  ELSE BadRequest

(* faulty variant: title declared z.string() without min(1) *)
createDocumentInputParse_noMin(raw) ==
  IF /\ raw.title.type = "string"
     /\ raw.content.type \in {"string", "undefined"}
     /\ raw.user_id.type = "number"
  THEN Ok([title |-> raw.title.value,
           content |-> IF raw.content.type = "undefined" THEN "" ELSE raw.content.value,
           user_id |-> raw.user_id.value])
  ELSE BadRequest

createDocumentInputParse(raw) ==
  IF /\ stringMin1(raw.title)
     /\ raw.content.type \in {"string", "undefined"}
     /\ raw.user_id.type = "number"
  THEN Ok([title |-> raw.title.value,
           content |-> IF raw.content.type = "undefined" THEN "" ELSE raw.content.value,
           user_id |-> raw.user_id.value])
  ELSE BadRequest

getDocumentsInputParse(raw) ==
  IF /\ raw.user_id.type = "number"
     /\ \/ raw.limit.type = "undefined"
        \/ raw.limit.type = "number" /\ raw.limit.value > 0 /\ raw.limit.value <= limitMax
     /\ \/ raw.offset.type = "undefined"
        \/ raw.offset.type = "number" /\ raw.offset.value >= 0
  THEN Ok([user_id |-> raw.user_id.value,
           limit |-> IF raw.limit.type = "undefined" THEN limitDefault ELSE raw.limit.value,
           offset |-> IF raw.offset.type = "undefined" THEN offsetDefault ELSE raw.offset.value])
  ELSE BadRequest

getDocumentInputParse(raw) ==
  IF raw.id.type = "number" /\ raw.user_id.type = "number"
  THEN Ok([id |-> raw.id.value, user_id |-> raw.user_id.value])
  ELSE BadRequest

updateDocumentInputParse(raw) ==
  IF /\ raw.id.type = "number"
     /\ raw.title.type = "undefined" \/ stringMin1(raw.title)
     /\ raw.content.type \in {"string", "undefined"}
  THEN Ok([id |-> raw.id.value, title |-> raw.title, content |-> raw.content])
  ELSE BadRequest

deleteDocumentInputParse(raw) ==
  IF raw.id.type = "number" /\ raw.user_id.type = "number"
  THEN Ok([id |-> raw.id.value, user_id |-> raw.user_id.value])
  ELSE BadRequest

createSourceInputParse(raw) ==
  IF /\ raw.document_id.type = "number"
     /\ stringMin1(raw.title)
     /\ stringMin1(raw.content)
     /\ raw.source_type.type = "string" /\ raw.source_type.value \in sourceTypeEnum
     /\ \/ raw.source_url.type \in {"undefined", "null"}
        \/ raw.source_url.type = "string" /\ isUrl(raw.source_url.value)
  THEN Ok([document_id |-> raw.document_id.value, title |-> raw.title.value,
           content |-> raw.content.value, source_type |-> raw.source_type.value,
           source_url |-> raw.source_url])
  ELSE BadRequest

getSourcesInputParse(raw) ==
  IF raw.document_id.type = "number"
  THEN Ok([document_id |-> raw.document_id.value])
  ELSE BadRequest

deleteSourceInputParse(raw) ==
  IF raw.id.type = "number" /\ raw.document_id.type = "number"
  THEN Ok([id |-> raw.id.value, document_id |-> raw.document_id.value])
  ELSE BadRequest

aiAssistanceRequestParse(raw) ==
  IF /\ raw.document_id.type = "number"
     /\ stringMin1(raw.prompt)
     /\ raw.context.type \in {"string", "undefined"}
     /\ raw.assistance_type.type = "string"
     /\ raw.assistance_type.value \in assistanceTypeEnum
  THEN Ok([document_id |-> raw.document_id.value, prompt |-> raw.prompt.value,
           context |-> raw.context, assistance_type |-> raw.assistance_type.value])
  ELSE BadRequest

(* publicProcedure.input(schema): a request the schema does not accept is *)
(* answered by the parser's error and the resolver does not run            *)
inputRejected(op, raw) ==
  /\ lastCall' = Call(op, raw)
  /\ result' = BadRequest
  /\ UNCHANGED <<tables, seqs, now>>

healthcheck ==
  /\ lastCall' = Call("healthcheck", <<>>)
  /\ result' = Ok([status |-> "ok", timestamp |-> now])
  /\ UNCHANGED <<tables, seqs, now>>

(* the requests sent: each field present or missing, in or out of its domain *)
RequestIds == {JsUndefined, JsNumber(1)}
createUserRequests ==
  [email : {JsUndefined, JsString("nomail"), JsString("u1@x.io")},
   name : {JsString(""), JsString("Demo")}]
createDocumentRequests ==
  [title : {JsUndefined, JsString(""), JsString("A")},
   content : {JsUndefined, JsString("x")},
   user_id : RequestIds]
getDocumentsRequests ==
  [user_id : RequestIds,
   limit : {JsUndefined, JsNumber(0), JsNumber(1), JsNumber(limitMax + 1)},
   offset : {JsUndefined, JsNumber(-1), JsNumber(1)}]
getDocumentRequests == [id : RequestIds, user_id : RequestIds]
updateDocumentRequests ==
  [id : RequestIds,
   title : {JsUndefined, JsString(""), JsString("B")},
   content : {JsUndefined, JsString("x")}]
createSourceRequests ==
  [document_id : RequestIds,
   title : {JsString(""), JsString("S")},
   content : {JsString(""), JsString("src")},
   source_type : {JsString("text"), JsString("pdf")},
   source_url : {JsUndefined, JsNull, JsString("nourl"), JsString("https://e.x/a")}]
getSourcesRequests == [document_id : RequestIds]
deleteSourceRequests == [id : RequestIds, document_id : RequestIds]
aiAssistanceRequests ==
  [document_id : RequestIds,
   prompt : {JsString(""), JsString("p")},
   context : {JsUndefined, JsString("sel")},
   assistance_type : {JsString("write"), JsString("translate")}]

appRouter ==
  \/ healthcheck
  \/ \E raw \in createUserRequests :
       LET input == createUserInputParse(raw)
       IN IF input.tag = "ok" THEN createUser(input.val) ELSE inputRejected("createUser", raw)
  \/ \E raw \in createDocumentRequests :
       LET input == createDocumentInputParse(raw)
       IN IF input.tag = "ok" THEN createDocument(input.val) ELSE inputRejected("createDocument", raw)
  \/ \E raw \in getDocumentsRequests :
       LET input == getDocumentsInputParse(raw)
       IN IF input.tag = "ok" THEN getDocuments(input.val) ELSE inputRejected("getDocuments", raw)
  \/ \E raw \in getDocumentRequests :
       LET input == getDocumentInputParse(raw)
       IN IF input.tag = "ok" THEN getDocument(input.val) ELSE inputRejected("getDocument", raw)
  \/ \E raw \in updateDocumentRequests :
       LET input == updateDocumentInputParse(raw)
       IN IF input.tag = "ok" THEN updateDocument(input.val) ELSE inputRejected("updateDocument", raw)
  \/ \E raw \in getDocumentRequests :
       LET input == deleteDocumentInputParse(raw)
       IN IF input.tag = "ok" THEN deleteDocument(input.val) ELSE inputRejected("deleteDocument", raw)
  \/ \E raw \in createSourceRequests :
       LET input == createSourceInputParse(raw)
       IN IF input.tag = "ok" THEN createSource(input.val) ELSE inputRejected("createSource", raw)
  \/ \E raw \in getSourcesRequests :
       LET input == getSourcesInputParse(raw)
       IN IF input.tag = "ok" THEN getSources(input.val) ELSE inputRejected("getSources", raw)
  \/ \E raw \in deleteSourceRequests :
       LET input == deleteSourceInputParse(raw)
       IN IF input.tag = "ok" THEN deleteSource(input.val) ELSE inputRejected("deleteSource", raw)
  \/ \E raw \in aiAssistanceRequests :
       LET input == aiAssistanceRequestParse(raw)
       IN IF input.tag = "ok" THEN requestAiAssistance(input.val) ELSE inputRejected("requestAiAssistance", raw)
  \/ \E raw \in getDocumentRequests :
       LET input == getDocumentInputParse(raw)
       IN IF input.tag = "ok" THEN getAiResponses(input.val) ELSE inputRejected("getAiResponses", raw)

(* ---------------------------------------------------------------------- *)
(* The client: App shows the selected document in a DocumentEditor         *)
(* ---------------------------------------------------------------------- *)
(* App's currentUser.id *)
currentUserId == 1

(* the auto-save delay, 2000 ms, in units of one second *)
autoSaveDelay == 2

(* what the user types into the title and the text area *)
EditorTitles == {" "}
EditorContents == {"x"}

(* String.prototype.trim, on the titles above: the blank title trims to "" *)
trim(s) == IF s = " " THEN "" ELSE s

(* a client step that is no request to the server *)
clientStep(op, arg) ==
  /\ lastCall' = Call(op, arg)
  /\ result' = [tag |-> "none"]
  /\ UNCHANGED <<tables, seqs, now>>

(* the auto-save effect, run after a render in which one of content,      *)
(* title, hasUnsavedChanges, saveDocument changed: its cleanup clears the  *)
(* timeout it set before, then a timeout is set if there are unsaved       *)
(* changes                                                                 *)
(* faulty variant: the effect without its cleanup *)
autoSaveEffect_noCleanup(unsaved) ==
  IF unsaved
  THEN /\ timers' = timers \cup {now + autoSaveDelay}
       /\ timeoutId' = JsNumber(now + autoSaveDelay)
  ELSE /\ timers' = timers
       /\ timeoutId' = JsNull

autoSaveEffect(unsaved) ==
  LET cleared == IF timeoutId = JsNull THEN timers ELSE timers \ {timeoutId.value}
  IN IF unsaved
     THEN /\ timers' = cleared \cup {now + autoSaveDelay}
          /\ timeoutId' = JsNumber(now + autoSaveDelay)
     ELSE /\ timers' = cleared
          /\ timeoutId' = JsNull

(* a DocumentEditor is mounted for document *)
mount(document) ==
  /\ selectedDocument' = document
  /\ content' = document.content
  /\ title' = document.title
  /\ isSaving' = FALSE
  /\ lastSaved' = JsNull
  /\ hasUnsavedChanges' = FALSE
  /\ timeoutId' = JsNull
  /\ timers' = timers

(* the mounted DocumentEditor is removed: the effect's cleanup runs *)
unmount ==
  /\ selectedDocument' = Null
  /\ content' = ""
  /\ title' = ""
  /\ isSaving' = FALSE
  /\ lastSaved' = JsNull
  /\ hasUnsavedChanges' = FALSE
  /\ timeoutId' = JsNull
  /\ timers' = IF timeoutId = JsNull THEN timers ELSE timers \ {timeoutId.value}

(* the mounted DocumentEditor renders with a new document object and the   *)
(* state unsaved, saving, saved set by the handler: the first effect       *)
(* resets content, title and hasUnsavedChanges if the document's content   *)
(* or title differs from the previous document's, then the auto-save       *)
(* effect runs (saveDocument depends on document)                          *)
renderDocument(document, unsaved, saving, saved) ==
  LET reset == \/ document.content # selectedDocument.content
               \/ document.title # selectedDocument.title
  IN /\ selectedDocument' = document
     /\ content' = IF reset THEN document.content ELSE content
     /\ title' = IF reset THEN document.title ELSE title
     /\ hasUnsavedChanges' = IF reset THEN FALSE ELSE unsaved
     /\ isSaving' = saving
     /\ lastSaved' = saved
     /\ autoSaveEffect(IF reset THEN FALSE ELSE unsaved)

(* App.setSelectedDocument *)
setSelectedDocument(document, unsaved, saving, saved) ==
  IF document = Null
  THEN IF selectedDocument = Null
       THEN UNCHANGED <<selectedDocument, content, title, isSaving, lastSaved,
                        hasUnsavedChanges, timeoutId, timers>>
       ELSE unmount
  ELSE IF selectedDocument = Null
       THEN mount(document)
       ELSE renderDocument(document, unsaved, saving, saved)

(* the user clicks a document of the list *)
handleSelectDocument(docId) ==
  /\ getDocument([id |-> docId, user_id |-> currentUserId])
  /\ setSelectedDocument(IF result'.tag = "ok" THEN result'.val ELSE Null,
                         hasUnsavedChanges, isSaving, lastSaved)
  /\ UNCHANGED <<inFlight, lastEdit>>

(* the user edits the text *)
handleContentChange(value) ==
  /\ selectedDocument # Null
  /\ value # content
  /\ content' = value
  /\ hasUnsavedChanges' = TRUE
  /\ autoSaveEffect(TRUE)
  /\ lastEdit' = JsNumber(now)
  /\ clientStep("handleContentChange", value)
  /\ UNCHANGED <<selectedDocument, title, isSaving, lastSaved, inFlight>>

(* the user edits the title *)
handleTitleChange(value) ==
  /\ selectedDocument # Null
  /\ value # title
  /\ title' = value
  /\ hasUnsavedChanges' = TRUE
  /\ autoSaveEffect(TRUE)
  /\ lastEdit' = JsNumber(now)
  /\ clientStep("handleTitleChange", value)
  /\ UNCHANGED <<selectedDocument, content, isSaving, lastSaved, inFlight>>

(* App renders for a reason of its own: onUpdate is a new function, so     *)
(* saveDocument is, and the auto-save effect runs again                    *)
AppRender ==
  /\ selectedDocument # Null
  /\ autoSaveEffect(hasUnsavedChanges)
  /\ clientStep("render", <<>>)
  /\ UNCHANGED <<selectedDocument, content, title, isSaving, lastSaved,
                 hasUnsavedChanges, inFlight, lastEdit>>

(* saveDocument up to its await: nothing without unsaved changes,         *)
(* otherwise isSaving is set and the request sent                          *)
saveDocument ==
  IF ~hasUnsavedChanges
  THEN UNCHANGED <<isSaving, inFlight>>
  ELSE /\ isSaving' = TRUE
       /\ inFlight' = Append(inFlight,
            [updateData |-> [id |-> selectedDocument.id,
                             title |-> JsOr(JsString(trim(title)),
                                            JsString("Untitled Document")),
                             content |-> JsString(content)],
             document |-> selectedDocument])

(* a timeout set by the auto-save effect is due and runs saveDocument *)
timeout ==
  /\ selectedDocument # Null
  /\ \E due \in timers :
       /\ now >= due
       /\ timers' = timers \ {due}
       /\ clientStep("timeout", due)
  /\ saveDocument
  /\ UNCHANGED <<selectedDocument, content, title, lastSaved, hasUnsavedChanges,
                 timeoutId, lastEdit>>

(* the Save Now button, enabled with unsaved changes while not saving *)
(* faulty variant: the click sets a timeout for the save *)
handleManualSave_debounced ==
  /\ selectedDocument # Null
  /\ ~(~hasUnsavedChanges \/ isSaving)
  /\ timers' = timers \cup {now + autoSaveDelay}
  /\ clientStep("handleManualSave", <<>>)
  /\ UNCHANGED <<selectedDocument, content, title, isSaving, lastSaved,
                 hasUnsavedChanges, timeoutId, inFlight, lastEdit>>

handleManualSave ==
  /\ selectedDocument # Null
  /\ ~(~hasUnsavedChanges \/ isSaving)
  /\ saveDocument
  /\ clientStep("handleManualSave", <<>>)
  /\ UNCHANGED <<selectedDocument, content, title, lastSaved, hasUnsavedChanges,
                 timeoutId, timers, lastEdit>>

(* inFlight without its i-th call *)
settled(i) == [j \in 1..(Len(inFlight) - 1) |-> IF j < i THEN inFlight[j] ELSE inFlight[j + 1]]

(* saveDocument after its await: onUpdate, setLastSaved,                   *)
(* setHasUnsavedChanges(false), and setIsSaving(false) in finally          *)
(* faulty variant: setIsSaving(false) left out *)
saveDocumentResume_stillSaving(fullUpdatedDoc) ==
  setSelectedDocument(fullUpdatedDoc, FALSE, isSaving, JsDate(now))

saveDocumentResume(fullUpdatedDoc) ==
  setSelectedDocument(fullUpdatedDoc, FALSE, FALSE, JsDate(now))

(* the server handles the i-th call and the reply arrives *)
updateDocumentFulfilled(i) ==
  LET call == inFlight[i]
      sent == call.updateData
      document == call.document
  IN /\ updateDocument(sent)
     /\ saveDocumentResume(
          IF result'.tag = "ok"
          THEN result'.val
          ELSE [document EXCEPT
                      !.title = JsOr(sent.title, JsString(document.title)).value,
                      !.content = JsOr(sent.content, JsString(document.content)).value,
                      !.updated_at = now])
     /\ inFlight' = settled(i)
     /\ UNCHANGED lastEdit

(* the i-th call fails before it reaches the handler: the catch block *)
updateDocumentRejected(i) ==
  LET call == inFlight[i]
      document == call.document
  IN /\ lastCall' = Call("updateDocument", call.updateData)
     /\ result' = Err(<<"Failed to fetch">>)
     /\ saveDocumentResume([document EXCEPT
                 !.title = call.updateData.title.value,
                 !.content = call.updateData.content.value,
                 !.updated_at = now])
     /\ inFlight' = settled(i)
     /\ UNCHANGED <<tables, seqs, now, lastEdit>>

(* the parts of a templated text put together *)
RECURSIVE join(_)
join(parts) == IF parts = <<>> THEN "" ELSE Head(parts) \o join(Tail(parts))

(* AiAssistant.getDemoResponse for the types whose response is added to    *)
(* the document (the bullet character written -)                           *)
getDemoResponse(type, userPrompt) ==
  CASE type = "write" ->
         join(<<"Based on your request \"", userPrompt,
                "\", here's some generated content:\n\nArtificial Intelligence has transformed numerous industries, and education is no exception. The integration of AI technologies in educational settings offers unprecedented opportunities for personalized learning, efficient administration, and enhanced student outcomes. By leveraging machine learning algorithms and data analytics, educational institutions can now provide tailored learning experiences that adapt to individual student needs and learning styles.">>)
    [] type = "edit" ->
         "Here are some suggestions to improve your content:\n\n- Consider adding more specific examples to support your main points\n- The introduction could be strengthened with a compelling statistic or question\n- Try breaking longer paragraphs into smaller, more digestible chunks\n- Add transition sentences between sections for better flow\n- Consider including a call-to-action or conclusion that summarizes key takeaways"

(* App's onContentGenerated: the text is appended to the selected          *)
(* document's content and the document passed to handleDocumentUpdate; the *)
(* editor shows the new document with no unsaved changes, by its first     *)
(* effect if it is mounted and by its initial state when its tab is        *)
(* opened again                                                            *)
(* faulty variant: the document is left as it is *)
onContentGenerated_dropped(text) ==
  UNCHANGED <<selectedDocument, content, title, isSaving, lastSaved,
              hasUnsavedChanges, timeoutId, timers>>

onContentGenerated(text) ==
  LET updatedDoc == [selectedDocument EXCEPT !.content = @ \o text,
                                              !.updated_at = now]
  IN setSelectedDocument(updatedDoc, hasUnsavedChanges, isSaving, lastSaved)

(* AiAssistant.handleSubmitRequest with the prompt "p" and no context: the *)
(* response of the server is added to the document for write and edit      *)
handleSubmitRequest(assistanceType) ==
  /\ selectedDocument # Null
  /\ requestAiAssistance([document_id |-> selectedDocument.id,
                          prompt |-> "p",
                          context |-> JsUndefined,
                          assistance_type |-> assistanceType])
  /\ IF result'.tag = "ok"
     THEN IF assistanceType = "write" \/ assistanceType = "edit"
          THEN onContentGenerated("\n\n" \o join(result'.val.response_content))
          ELSE UNCHANGED <<selectedDocument, content, title, isSaving, lastSaved,
                           hasUnsavedChanges, timeoutId, timers>>
     ELSE IF assistanceType = "write" \/ assistanceType = "edit"
          THEN onContentGenerated("\n\n" \o getDemoResponse(assistanceType, "p"))
          ELSE UNCHANGED <<selectedDocument, content, title, isSaving, lastSaved,
                           hasUnsavedChanges, timeoutId, timers>>
  /\ UNCHANGED <<inFlight, lastEdit>>

(* the request fails before it reaches the handler: the catch block *)
handleSubmitRequestRejected(assistanceType) ==
  /\ selectedDocument # Null
  /\ lastCall' = Call("requestAiAssistance",
                      [document_id |-> selectedDocument.id,
                       prompt |-> "p",
                       context |-> JsUndefined,
                       assistance_type |-> assistanceType])
  /\ result' = Err(<<"Failed to fetch">>)
  /\ IF assistanceType = "write" \/ assistanceType = "edit"
     THEN onContentGenerated("\n\n" \o getDemoResponse(assistanceType, "p"))
     ELSE UNCHANGED <<selectedDocument, content, title, isSaving, lastSaved,
                      hasUnsavedChanges, timeoutId, timers>>
  /\ UNCHANGED <<tables, seqs, now, inFlight, lastEdit>>

(* the Add to Document button of a write or edit response in the history *)
addToDocument(response) ==
  /\ selectedDocument # Null
  /\ response.document_id = selectedDocument.id
  /\ response.assistance_type = "write" \/ response.assistance_type = "edit"
  /\ onContentGenerated("\n\n" \o join(response.response_content))
  /\ clientStep("onContentGenerated", response.id)
  /\ UNCHANGED <<inFlight, lastEdit>>

(* the documents App lists: those of the current user *)
listed == {d.id : d \in {x \in documentsTable : x.user_id = currentUserId}}

client ==
  \/ \E docId \in listed : handleSelectDocument(docId)
  \/ \E value \in EditorContents : handleContentChange(value)
  \/ \E value \in EditorTitles : handleTitleChange(value)
  \/ AppRender
  \/ timeout
  \/ handleManualSave
  \/ \E i \in 1..Len(inFlight) : updateDocumentFulfilled(i)
  \/ \E i \in 1..Len(inFlight) : updateDocumentRejected(i)

(* ---------------------------------------------------------------------- *)
(* The system: any request at any time, until MaxInserts rows were        *)
(* inserted and the clock shows MaxTime                                    *)
(* ---------------------------------------------------------------------- *)
Next ==
  /\ \/ client
     \/ /\ \/ Tick
           \/ \E input \in createUserInputSchema : createUser(input)
           \/ \E input \in createDocumentInputSchema : createDocument(input)
           \/ \E input \in getDocumentsInputSchema : getDocuments(input)
           \/ \E input \in getDocumentInputSchema : getDocument(input)
           \/ \E input \in updateDocumentInputSchema : updateDocument(input)
           \/ \E input \in deleteDocumentInputSchema : deleteDocument(input)
           \/ \E input \in createSourceInputSchema : createSource(input)
           \/ \E input \in getSourcesInputSchema : getSources(input)
           \/ \E input \in deleteSourceInputSchema : deleteSource(input)
           \/ \E input \in aiAssistanceRequestSchema : requestAiAssistance(input)
           \/ \E input \in getDocumentInputSchema : getAiResponses(input)
        /\ UNCHANGED editor
  /\ Inserts' <= MaxInserts
  /\ now' <= MaxTime
  /\ UNCHANGED running

Spec == Init /\ [][Next]_vars

(* ---------------------------------------------------------------------- *)
(* The document handlers alone, over users and documents, at one clock     *)
(* reading                                                                 *)
(* ---------------------------------------------------------------------- *)
NextDocuments ==
  /\ \/ \E input \in createUserInputSchema : createUser(input)
     \/ \E input \in createDocumentInputSchema : createDocument(input)
     \/ \E input \in getDocumentInputSchema : getDocument(input)
     \/ \E input \in updateDocumentInputSchema : updateDocument(input)
     \/ \E input \in deleteDocumentInputSchema : deleteDocument(input)
  /\ Inserts' <= MaxDocumentInserts
  /\ UNCHANGED editor
  /\ UNCHANGED running

SpecDocuments == Init /\ [][NextDocuments]_vars

(* ---------------------------------------------------------------------- *)
(* Creating and updating documents while the clock advances                *)
(* ---------------------------------------------------------------------- *)
NextClock ==
  /\ \/ Tick
     \/ \E input \in createUserInputSchema : createUser(input)
     \/ \E input \in createDocumentInputSchema : createDocument(input)
     \/ \E input \in updateDocumentInputSchema : updateDocument(input)
  /\ Inserts' <= MaxClockInserts
  /\ now' <= MaxTime
  /\ UNCHANGED editor
  /\ UNCHANGED running

SpecClock == Init /\ [][NextClock]_vars

(* ---------------------------------------------------------------------- *)
(* Documents with their sources and AI responses, at one clock reading     *)
(* ---------------------------------------------------------------------- *)
(* the requests made here: documents of one title and content, url and    *)
(* text sources, write requests without a selection                        *)
SourcesDocumentInputs ==
  {i \in createDocumentInputSchema : i.title = "A" /\ i.content = ""}
SourcesSourceInputs ==
  {i \in createSourceInputSchema :
     i.source_type \in {"url", "text"}}
SourcesAiInputs ==
  {i \in aiAssistanceRequestSchema :
     i.assistance_type = "write" /\ i.context = JsUndefined}

NextSources ==
  /\ \/ \E input \in createUserInputSchema : createUser(input)
     \/ \E input \in SourcesDocumentInputs : createDocument(input)
     \/ \E input \in deleteDocumentInputSchema : deleteDocument(input)
     \/ \E input \in SourcesSourceInputs : createSource(input)
     \/ \E input \in getSourcesInputSchema : getSources(input)
     \/ \E input \in SourcesAiInputs : requestAiAssistance(input)
     \/ \E input \in getDocumentInputSchema : getAiResponses(input)
  /\ Inserts' <= MaxSourceInserts
  /\ UNCHANGED editor
  /\ UNCHANGED running

SpecSources == Init /\ [][NextSources]_vars

(* ---------------------------------------------------------------------- *)
(* Adding text sources to documents and deleting them                      *)
(* ---------------------------------------------------------------------- *)
DeleteSourceInputs ==
  {i \in createSourceInputSchema : i.source_type = "text" /\ i.source_url = JsNull}

NextSourceDelete ==
  /\ \/ \E input \in createUserInputSchema : createUser(input)
     \/ \E input \in SourcesDocumentInputs : createDocument(input)
     \/ \E input \in DeleteSourceInputs : createSource(input)
     \/ \E input \in getSourcesInputSchema : getSources(input)
     \/ \E input \in deleteSourceInputSchema : deleteSource(input)
  /\ Inserts' <= MaxSourceDeleteInserts
  /\ UNCHANGED editor
  /\ UNCHANGED running

SpecSourceDelete == Init /\ [][NextSourceDelete]_vars

(* ---------------------------------------------------------------------- *)
(* Listing the documents of a user, page by page, while the clock advances *)
(* ---------------------------------------------------------------------- *)
NextListing ==
  /\ \/ Tick
     \/ \E input \in createUserInputSchema : createUser(input)
     \/ \E input \in SourcesDocumentInputs : createDocument(input)
     \/ \E input \in getDocumentsInputSchema : getDocuments(input)
  /\ Inserts' <= MaxListingInserts
  /\ now' <= MaxTime
  /\ UNCHANGED editor
  /\ UNCHANGED running

SpecListing == Init /\ [][NextListing]_vars

(* ---------------------------------------------------------------------- *)
(* Asking for AI assistance and reading the responses back while the       *)
(* clock advances                                                          *)
(* ---------------------------------------------------------------------- *)
NextResponses ==
  /\ \/ Tick
     \/ \E input \in createUserInputSchema : createUser(input)
     \/ \E input \in SourcesDocumentInputs : createDocument(input)
     \/ \E input \in SourcesAiInputs : requestAiAssistance(input)
     \/ \E input \in getDocumentInputSchema : getAiResponses(input)
  /\ Inserts' <= MaxResponseInserts
  /\ now' <= MaxTime
  /\ UNCHANGED editor
  /\ UNCHANGED running

SpecResponses == Init /\ [][NextResponses]_vars

(* ---------------------------------------------------------------------- *)
(* Requests as they arrive at the router, well-formed or not               *)
(* ---------------------------------------------------------------------- *)
NextRouter ==
  /\ appRouter
  /\ Inserts' <= MaxRouterInserts
  /\ UNCHANGED editor
  /\ UNCHANGED running

SpecRouter == Init /\ [][NextRouter]_vars

(* ---------------------------------------------------------------------- *)
(* The current user's document open in the editor: edits, the auto-save    *)
(* timeout, Save Now and the replies to updateDocument, while the clock    *)
(* advances                                                                *)
(* ---------------------------------------------------------------------- *)
EditorUserInputs == {i \in createUserInputSchema : i.email = "u1@x.io"}
EditorDocumentInputs ==
  {i \in createDocumentInputSchema :
     i.title = "A" /\ i.content = "" /\ i.user_id = currentUserId}

NextEditor ==
  /\ \/ client
     \/ /\ \/ Tick
           \/ now = 0 /\ \E input \in EditorUserInputs : createUser(input)
           \/ now = 0 /\ \E input \in EditorDocumentInputs : createDocument(input)
        /\ UNCHANGED editor
  /\ Inserts' <= MaxEditorInserts
  /\ now' <= MaxEditorTime
  /\ Len(inFlight') <= MaxInFlight
  /\ UNCHANGED running

SpecEditor == Init /\ [][NextEditor]_vars

(* ---------------------------------------------------------------------- *)
(* A document with text open in the editor: the user clears the text or    *)
(* blanks the title, saves are sent and answered with the record, with     *)
(* null (the document was deleted in another session) or with a failure;   *)
(* one user and one document are created                                  *)
(* ---------------------------------------------------------------------- *)
SaveTitles == {" "}
SaveContents == {""}
SaveDocumentInputs ==
  {i \in createDocumentInputSchema :
     i.title = "A" /\ i.content = "x" /\ i.user_id = currentUserId}
SaveDeleteInputs == {i \in deleteDocumentInputSchema : i.user_id = currentUserId}

(* the reply to one of the calls in flight arrives *)
updateDocumentSettled ==
  \E i \in 1..Len(inFlight) :
    /\ lastCall' = Call("updateDocument", inFlight[i].updateData)
    /\ updateDocumentFulfilled(i) \/ updateDocumentRejected(i)
    /\ UNCHANGED running

NextSave ==
  /\ \/ \E docId \in listed : handleSelectDocument(docId)
     \/ \E value \in SaveContents : handleContentChange(value)
     \/ \E value \in SaveTitles : handleTitleChange(value)
     \/ AppRender
     \/ timeout
     \/ handleManualSave
     \/ updateDocumentSettled
     \/ /\ \/ Tick
           \/ users_id_seq = 0 /\ \E input \in EditorUserInputs : createUser(input)
           \/ documents_id_seq = 0 /\ \E input \in SaveDocumentInputs : createDocument(input)
           \/ \E input \in SaveDeleteInputs : deleteDocument(input)
        /\ UNCHANGED editor
  /\ now' <= MaxSaveTime
  /\ Len(inFlight') <= MaxSaveInFlight
  /\ UNCHANGED running

SpecSave == Init /\ [][NextSave]_vars

(* the transport answers every call: the promise of a call in flight is    *)
(* fulfilled or rejected                                                   *)
SpecSaveSettles == SpecSave /\ WF_vars(updateDocumentSettled)

(* ---------------------------------------------------------------------- *)
(* Two documents of the current user with the same title and content: the  *)
(* user edits one, saves, and selects the other                            *)
(* ---------------------------------------------------------------------- *)
NextSwitch ==
  /\ \/ \E docId \in listed : handleSelectDocument(docId)
     \/ \E value \in EditorContents : handleContentChange(value)
     \/ \E value \in EditorTitles : handleTitleChange(value)
     \/ timeout
     \/ handleManualSave
     \/ updateDocumentSettled
     \/ /\ \/ Tick
           \/ users_id_seq = 0 /\ \E input \in EditorUserInputs : createUser(input)
           \/ now = 0 /\ \E input \in EditorDocumentInputs : createDocument(input)
        /\ UNCHANGED editor
  /\ documents_id_seq' <= MaxSwitchDocuments
  /\ now' <= MaxSwitchTime
  /\ Len(inFlight') <= MaxSwitchInFlight
  /\ UNCHANGED running

SpecSwitch == Init /\ [][NextSwitch]_vars

(* ---------------------------------------------------------------------- *)
(* The current user's document open in the editor and in the AI assistant: *)
(* requests for assistance, Add to Document, edits and saves               *)
(* ---------------------------------------------------------------------- *)
NextAssist ==
  /\ \/ \E docId \in listed : handleSelectDocument(docId)
     \/ \E type \in assistanceTypeEnum : handleSubmitRequest(type)
     \/ \E type \in assistanceTypeEnum : handleSubmitRequestRejected(type)
     \/ \E response \in aiAssistanceResponsesTable : addToDocument(response)
     \/ \E value \in EditorContents : handleContentChange(value)
     \/ timeout
     \/ handleManualSave
     \/ updateDocumentSettled
     \/ /\ \/ Tick
           \/ now = 0 /\ users_id_seq = 0 /\ \E input \in EditorUserInputs : createUser(input)
           \/ now = 0 /\ documents_id_seq = 0 /\ \E input \in EditorDocumentInputs : createDocument(input)
        /\ UNCHANGED editor
  /\ ai_id_seq' <= MaxAssistResponses
  /\ selectedDocument' # Null => Len(selectedDocument'.content) <= MaxAssistContentLen
  /\ now' <= MaxAssistTime
  /\ Len(inFlight') <= MaxAssistInFlight
  /\ UNCHANGED running

SpecAssist == Init /\ [][NextAssist]_vars

(* the transport answers every updateDocument call *)
SpecAssistSettles == SpecAssist /\ WF_vars(updateDocumentSettled)

(* ---------------------------------------------------------------------- *)
(* Documents deleted while sources are added and assistance is requested,  *)
(* the statements of the handlers interleaved                              *)
(* ---------------------------------------------------------------------- *)
NextRace ==
  /\ \/ /\ \/ users_id_seq = 0 /\ \E input \in EditorUserInputs : createUser(input)
           \/ \E input \in EditorDocumentInputs : createDocument(input)
           \/ \E input \in SaveDeleteInputs : deleteDocument(input)
        /\ UNCHANGED running
     \/ \E input \in DeleteSourceInputs : createSourceLookup(input)
     \/ \E call \in running : createSourceInsert(call)
     \/ \E input \in SourcesAiInputs : requestAiAssistanceLookup(input)
     \/ \E call \in running : requestAiAssistanceInsert(call)
  /\ Inserts' <= MaxRaceInserts
  /\ Cardinality(running') <= MaxRunning
  /\ UNCHANGED <<now, editor>>

SpecRace == Init /\ [][NextRace]_vars

(* ---------------------------------------------------------------------- *)
(* AI assistance of every type, on documents with and without text         *)
(* ---------------------------------------------------------------------- *)
TemplateAiInputs == {i \in aiAssistanceRequestSchema : i.context = JsUndefined}

NextTemplates ==
  /\ \/ users_id_seq = 0 /\ \E input \in EditorUserInputs : createUser(input)
     \/ \E input \in createDocumentInputSchema : createDocument(input)
     \/ \E input \in TemplateAiInputs : requestAiAssistance(input)
  /\ Inserts' <= MaxTemplateInserts
  /\ UNCHANGED editor
  /\ UNCHANGED running

SpecTemplates == Init /\ [][NextTemplates]_vars

(* ---------------------------------------------------------------------- *)
(* Every procedure of the router, called by one user on documents with     *)
(* sources and AI responses, at one clock reading                          *)
(* ---------------------------------------------------------------------- *)
NextProcedures ==
  /\ \/ users_id_seq = 0 /\ \E input \in EditorUserInputs : createUser(input)
     \/ \E input \in SourcesDocumentInputs : createDocument(input)
     \/ \E input \in getDocumentsInputSchema : getDocuments(input)
     \/ \E input \in getDocumentInputSchema : getDocument(input)
     \/ \E input \in updateDocumentInputSchema : updateDocument(input)
     \/ \E input \in deleteDocumentInputSchema : deleteDocument(input)
     \/ \E input \in DeleteSourceInputs : createSource(input)
     \/ \E input \in getSourcesInputSchema : getSources(input)
     \/ \E input \in deleteSourceInputSchema : deleteSource(input)
     \/ \E input \in SourcesAiInputs : requestAiAssistance(input)
     \/ \E input \in getDocumentInputSchema : getAiResponses(input)
  /\ Inserts' <= MaxProcedureInserts
  /\ UNCHANGED editor
  /\ UNCHANGED running

SpecProcedures == Init /\ [][NextProcedures]_vars

(* ====================================================================== *)
(* Properties                                                              *)
(* ====================================================================== *)
(* the rows of a child table that belong to document id *)
rowsOf(rows, id) == {r \in rows : r.document_id = id}

(* C1: getDocument(id, user_id) returns a stored document exactly when a   *)
(* document with that id and that user_id exists, and null otherwise, for  *)
(* a missing id and for another user's id alike; a document read back      *)
(* right after its creation has the title, content and user_id it was      *)
(* created with.                                                           *)
C1_GetDocumentOwnerScoped ==
  [][lastCall'.op = "getDocument" =>
       LET input == lastCall'.input
           owned == {d \in documentsTable' : d.id = input.id /\ d.user_id = input.user_id}
       IN /\ (owned = {}) <=> (result' = Null)
          /\ owned # {} => (result'.tag = "ok" /\ result'.val \in owned)
          /\ ( /\ lastCall.op = "createDocument"
               /\ result.tag = "ok"
               /\ input.id = result.val.id
               /\ input.user_id = lastCall.input.user_id )
             => /\ result'.tag = "ok"
                /\ result'.val.title = lastCall.input.title
                /\ result'.val.content = lastCall.input.content
                /\ result'.val.user_id = lastCall.input.user_id
    ]_vars

(* a document exists under the requested id, owned by another user, and    *)
(* getDocument returned null                                               *)
C1_Witness ==
  /\ lastCall.op = "getDocument"
  /\ result = Null
  /\ \E d \in documentsTable :
       d.id = lastCall.input.id /\ d.user_id # lastCall.input.user_id

(* the request names user uid as its user_id *)
namesUser(call, uid) ==
  /\ "user_id" \in DOMAIN call.input
  /\ call.input.user_id = uid

(* the step returned document d, its sources or its AI responses *)
returned(call, res, d) ==
  /\ res.tag = "ok"
  /\ \/ call.op \in {"getDocument", "updateDocument"} /\ res.val.id = d.id
     \/ call.op = "getSources" /\ call.input.document_id = d.id
     \/ call.op = "getAiResponses" /\ call.input.id = d.id

(* C2: every document has exactly one owning user, and a step that returns *)
(* or changes a document, its sources or its AI responses serves a request *)
(* that names that owner's user_id.                                        *)
C2_OwnerOnlyAccess ==
  [][\A d \in documentsTable :
       /\ Cardinality({u \in usersTable : u.id = d.user_id}) = 1
       /\ ( \/ d \notin documentsTable'
            \/ rowsOf(sourcesTable', d.id) # rowsOf(sourcesTable, d.id)
            \/ rowsOf(aiAssistanceResponsesTable', d.id)
                 # rowsOf(aiAssistanceResponsesTable, d.id)
            \/ returned(lastCall', result', d) )
          => namesUser(lastCall', d.user_id)
    ]_vars

(* C5: updateDocument writes the supplied title and content and leaves an  *)
(* omitted one as it was; id, user_id and created_at stay; it succeeds for *)
(* any existing id and no other document changes.                          *)
C5_UpdateOnlySuppliedFields ==
  [][lastCall'.op = "updateDocument" =>
       LET input == lastCall'.input
       IN /\ \A d \in documentsTable :
               IF d.id = input.id
               THEN \E e \in documentsTable' :
                      /\ e.id = d.id
                      /\ e.user_id = d.user_id
                      /\ e.created_at = d.created_at
                      /\ e.title = (IF input.title = JsUndefined
                                    THEN d.title ELSE input.title.value)
                      /\ e.content = (IF input.content = JsUndefined
                                      THEN d.content ELSE input.content.value)
                      /\ result' = Ok(e)
               ELSE d \in documentsTable'
          /\ {e.id : e \in documentsTable'} = {d.id : d \in documentsTable}
          /\ Cardinality(documentsTable') = Cardinality(documentsTable)
    ]_vars

(* an update that supplied content and no title succeeded while a second   *)
(* document was stored                                                     *)
C5_Witness ==
  /\ lastCall.op = "updateDocument"
  /\ lastCall.input.title = JsUndefined
  /\ lastCall.input.content # JsUndefined
  /\ result.tag = "ok"
  /\ result.val.content = lastCall.input.content.value
  /\ \E d \in documentsTable : d.id # result.val.id

C7_UpdateMissingReturnsNull ==
  [][( /\ lastCall'.op = "updateDocument"
       /\ \A d \in documentsTable : d.id # lastCall'.input.id )
     => /\ result' = Null
        /\ UNCHANGED <<tables, seqs>>
    ]_vars

(* an update for a missing id returned null while other documents exist    *)
C7_Witness ==
  /\ lastCall.op = "updateDocument"
  /\ result = Null
  /\ documentsTable # {}
  /\ \A d \in documentsTable : d.id # lastCall.input.id

(* C8: createDocument for a user_id no user has fails with 'User not       *)
(* found' and inserts nothing; for an existing user it inserts exactly one *)
(* document, with the request's fields, an id never issued before and      *)
(* created_at <= updated_at, and returns it.                               *)
C8_CreateDocumentChecksUser ==
  [][lastCall'.op = "createDocument" =>
       LET input == lastCall'.input
       IN IF \A u \in usersTable : u.id # input.user_id
          THEN /\ result' = Err(<<"User not found">>)
               /\ documentsTable' = documentsTable
          ELSE /\ result'.tag = "ok"
               /\ documentsTable' = documentsTable \cup {result'.val}
               /\ result'.val \notin documentsTable
               /\ result'.val.id > documents_id_seq
               /\ \A d \in documentsTable : d.id # result'.val.id
               /\ result'.val.title = input.title
               /\ result'.val.content = input.content
               /\ result'.val.user_id = input.user_id
               /\ result'.val.created_at <= result'.val.updated_at
    ]_vars

(* createDocument failed for a user_id that no user has, while another     *)
(* user exists                                                             *)
C8_Witness ==
  /\ lastCall.op = "createDocument"
  /\ result = Err(<<"User not found">>)
  /\ usersTable # {}
  /\ \A u \in usersTable : u.id # lastCall.input.user_id

(* the request's (id, user_id) matches no stored document *)
notOwned(input) ==
  \A d \in documentsTable : ~(d.id = input.id /\ d.user_id = input.user_id)

(* C3: deleteDocument(id, user_id) for an id no document has, or for a     *)
(* document of another user, returns false, raises no error and leaves     *)
(* documents, sources and AI responses unchanged.                          *)
C3_DeleteNotOwnedChangesNothing ==
  [][(lastCall'.op = "deleteDocument" /\ notOwned(lastCall'.input))
     => /\ result' = Ok(FALSE)
        /\ UNCHANGED <<tables, seqs>>
    ]_vars

(* deleteDocument returned false for a document of another user that has   *)
(* a source and an AI response                                             *)
C3_Witness ==
  /\ lastCall.op = "deleteDocument"
  /\ result = Ok(FALSE)
  /\ \E d \in documentsTable :
       /\ d.id = lastCall.input.id
       /\ d.user_id # lastCall.input.user_id
       /\ rowsOf(sourcesTable, d.id) # {}
       /\ rowsOf(aiAssistanceResponsesTable, d.id) # {}

(* the document of this id was stored and has been deleted *)
deleted(id) ==
  /\ id <= documents_id_seq
  /\ \A d \in documentsTable : d.id # id

(* the owner's deleteDocument returns true and removes the document, its   *)
(* sources and its AI responses                                            *)
ownerDeleteCascades ==
  (lastCall'.op = "deleteDocument" /\ ~notOwned(lastCall'.input))
  => /\ result' = Ok(TRUE)
     /\ \A d \in documentsTable' : d.id # lastCall'.input.id
     /\ rowsOf(sourcesTable', lastCall'.input.id) = {}
     /\ rowsOf(aiAssistanceResponsesTable', lastCall'.input.id) = {}

(* getAiResponses for a deleted document returns the empty sequence *)
deletedAiResponsesEmpty ==
  (lastCall'.op = "getAiResponses" /\ deleted(lastCall'.input.id))
  => result' = Ok(<<>>)

(* C4 as stated: the owner's deleteDocument returns true, removes the      *)
(* document with its sources and AI responses, and later queries for that  *)
(* document's sources and AI responses return empty sequences.             *)
C4_DeleteCascadesQueriesEmpty ==
  [][/\ ownerDeleteCascades
     /\ deletedAiResponsesEmpty
     /\ (lastCall'.op = "getSources" /\ deleted(lastCall'.input.document_id))
        => (result'.tag = "ok" /\ result'.val = {})
    ]_vars

(* C4 amended: the owner's deleteDocument returns true and removes the     *)
(* document with its sources and AI responses, so that none remains in the *)
(* store; a later getAiResponses for that document returns an empty        *)
(* sequence, and a later getSources raises 'Document not found'.           *)
C4_DeleteCascades ==
  [][/\ ownerDeleteCascades
     /\ deletedAiResponsesEmpty
     /\ (lastCall'.op = "getSources" /\ deleted(lastCall'.input.document_id))
        => result' = Err(<<"Document not found">>)
    ]_vars

(* the owner deleted a document, and a source and an AI response went      *)
(* with it                                                                 *)
C4_Witness ==
  /\ lastCall.op = "deleteDocument"
  /\ result = Ok(TRUE)
  /\ sources_id_seq > Cardinality(sourcesTable)
  /\ ai_id_seq > Cardinality(aiAssistanceResponsesTable)

(* C9: createSource for a document_id no document has fails with a         *)
(* not-found error and inserts nothing; otherwise it inserts exactly one   *)
(* source, attached to that document, whose source_url is the supplied URL *)
(* or null when none was supplied, and returns it.                         *)
C9_CreateSourceChecksDocument ==
  [][lastCall'.op = "createSource" =>
       LET input == lastCall'.input
       IN IF \A d \in documentsTable : d.id # input.document_id
          THEN /\ result' = Err(<<"Document with id ", input.document_id, " not found">>)
               /\ sourcesTable' = sourcesTable
          ELSE /\ result'.tag = "ok"
               /\ sourcesTable' = sourcesTable \cup {result'.val}
               /\ result'.val \notin sourcesTable
               /\ \A r \in sourcesTable : r.id # result'.val.id
               /\ result'.val.document_id = input.document_id
               /\ result'.val.source_type = input.source_type
               /\ result'.val.source_url =
                    (IF input.source_url.type = "string" THEN input.source_url ELSE JsNull)
    ]_vars

(* createSource failed for a document_id no document has, while another    *)
(* document exists with a source that carries a URL                        *)
C9_Witness ==
  /\ lastCall.op = "createSource"
  /\ result.tag = "error"
  /\ \A d \in documentsTable : d.id # lastCall.input.document_id
  /\ \E r \in sourcesTable : r.source_url # JsNull

(* C10: getSources for a document_id no document has raises 'Document not  *)
(* found' and returns no list; for an existing document it returns exactly *)
(* the sources whose document_id is that id.                               *)
C10_GetSourcesChecksDocument ==
  [][lastCall'.op = "getSources" =>
       LET input == lastCall'.input
       IN IF \A d \in documentsTable' : d.id # input.document_id
          THEN result' = Err(<<"Document not found">>)
          ELSE /\ result'.tag = "ok"
               /\ result'.val = rowsOf(sourcesTable', input.document_id)
    ]_vars

(* getSources raised 'Document not found' while sources of another         *)
(* document are stored                                                     *)
C10_Witness ==
  /\ lastCall.op = "getSources"
  /\ result = Err(<<"Document not found">>)
  /\ sourcesTable # {}

(* ---------------------------------------------------------------------- *)
(* C11: deleteSource returns true exactly when a source with the given id  *)
(* and the given document_id existed, and then that source is gone; for a  *)
(* missing id or another document's id it returns false and deletes        *)
(* nothing; every other source and every other table is unchanged.         *)
(* ---------------------------------------------------------------------- *)
C11_DeleteSourceScoped ==
  [][lastCall'.op = "deleteSource" =>
       LET input == lastCall'.input
           target == {s \in sourcesTable :
                        s.id = input.id /\ s.document_id = input.document_id}
       IN /\ result' = Ok(target # {})
          /\ sourcesTable' = sourcesTable \ target
          /\ UNCHANGED <<usersTable, documentsTable, aiAssistanceResponsesTable>>]_vars

(* a source of another document was named: false, and the source is still there *)
C11_Witness ==
  /\ lastCall.op = "deleteSource"
  /\ result = Ok(FALSE)
  /\ \E s \in sourcesTable :
       s.id = lastCall.input.id /\ s.document_id # lastCall.input.document_id
  /\ \E d \in documentsTable : d.id = lastCall.input.document_id

(* ---------------------------------------------------------------------- *)
(* C12: for an existing document requestAiAssistance inserts exactly one   *)
(* row, with a fresh id and the request's document_id, prompt and          *)
(* assistance_type, and returns that row; for a missing document it        *)
(* throws 'Document not found' and inserts nothing.  No other table is     *)
(* touched.                                                                *)
(* ---------------------------------------------------------------------- *)
C12_AiAssistancePersistsOneRow ==
  [][lastCall'.op = "requestAiAssistance" =>
       LET input == lastCall'.input
       IN /\ IF \E d \in documentsTable : d.id = input.document_id
             THEN /\ result'.tag = "ok"
                  /\ result'.val.id \notin {r.id : r \in aiAssistanceResponsesTable}
                  /\ aiAssistanceResponsesTable' =
                       aiAssistanceResponsesTable \cup {result'.val}
                  /\ result'.val.document_id = input.document_id
                  /\ result'.val.request_prompt = input.prompt
                  /\ result'.val.assistance_type = input.assistance_type
             ELSE /\ result' = Err(<<"Document not found">>)
                  /\ aiAssistanceResponsesTable' = aiAssistanceResponsesTable
                  /\ ai_id_seq' = ai_id_seq
          /\ UNCHANGED <<usersTable, documentsTable, sourcesTable>>]_vars

(* a second response was stored for a document and returned *)
C12_Witness ==
  /\ lastCall.op = "requestAiAssistance"
  /\ result.tag = "ok"
  /\ result.val \in aiAssistanceResponsesTable
  /\ Cardinality(rowsOf(aiAssistanceResponsesTable, lastCall.input.document_id)) = 2

(* ---------------------------------------------------------------------- *)
(* C13: getDocuments never throws and changes nothing; it returns          *)
(* documents of input.user_id only, each once, latest updated_at first,    *)
(* and these are the rows at positions offset+1 .. offset+limit of the     *)
(* user's documents in descending updated_at order: the offset rows before *)
(* them are no older than any other, the rows after them are no newer.     *)
(* A user without documents, or no such user, gives the empty sequence.    *)
(* ---------------------------------------------------------------------- *)
C13_GetDocumentsPage ==
  [][lastCall'.op = "getDocuments" =>
       LET input == lastCall'.input
           owned == {d \in documentsTable : d.user_id = input.user_id}
           n == Cardinality(owned)
       IN /\ result'.tag = "ok"
          /\ UNCHANGED <<tables, seqs>>
          /\ LET r == result'.val
                 page == {r[i] : i \in 1..Len(r)}
             IN /\ page \subseteq owned
                /\ Cardinality(page) = Len(r)
                /\ Len(r) <= input.limit
                /\ Len(r) = IF n - input.offset < 0 THEN 0
                            ELSE IF n - input.offset < input.limit
                                 THEN n - input.offset ELSE input.limit
                /\ \A i, j \in 1..Len(r) : i < j => r[i].updated_at >= r[j].updated_at
                /\ \E before \in SUBSET (owned \ page) :
                     /\ Cardinality(before) = (IF input.offset < n THEN input.offset ELSE n)
                     /\ \A b \in before : \A x \in owned \ before :
                          b.updated_at >= x.updated_at
                     /\ \A x \in page : \A a \in (owned \ before) \ page :
                          x.updated_at >= a.updated_at
                /\ (owned = {} => r = <<>>)]_vars

(* the second page of one: an older document of a user who has a newer one *)
C13_Witness ==
  /\ lastCall.op = "getDocuments"
  /\ lastCall.input.offset = 1
  /\ lastCall.input.limit = 1
  /\ result.tag = "ok"
  /\ Len(result.val) = 1
  /\ \E d \in documentsTable :
       /\ d.user_id = lastCall.input.user_id
       /\ d.updated_at > result.val[1].updated_at

(* ---------------------------------------------------------------------- *)
(* C14: two consecutive listings of one user, limit n at offset 0 and      *)
(* limit n at offset n, of a user with at least 2n documents, return       *)
(* disjoint sets of ids that together hold 2n documents, each page latest  *)
(* updated_at first, whatever the updated_at values are.                   *)
(* ---------------------------------------------------------------------- *)
C14_PagesDisjoint ==
  [][(/\ lastCall.op = "getDocuments"
      /\ lastCall'.op = "getDocuments"
      /\ lastCall'.input.user_id = lastCall.input.user_id
      /\ lastCall.input.offset = 0
      /\ lastCall'.input.limit = lastCall.input.limit
      /\ lastCall'.input.offset = lastCall.input.limit
      /\ Cardinality({d \in documentsTable : d.user_id = lastCall.input.user_id})
           >= 2 * lastCall.input.limit)
     => LET first == result.val
            second == result'.val
            firstIds == {first[i].id : i \in 1..Len(first)}
            secondIds == {second[i].id : i \in 1..Len(second)}
        IN /\ firstIds \cap secondIds = {}
           /\ Cardinality(firstIds \cup secondIds) = 2 * lastCall.input.limit
           /\ \A i, j \in 1..Len(first) : i < j => first[i].updated_at >= first[j].updated_at
           /\ \A i, j \in 1..Len(second) : i < j => second[i].updated_at >= second[j].updated_at]_vars

(* ---------------------------------------------------------------------- *)
(* C15: every stored source has a source_url other than null only if its   *)
(* source_type is 'url'.                                                   *)
(* ---------------------------------------------------------------------- *)
C15_UrlOnlyOnUrlSources ==
  \A s \in sourcesTable : s.source_url # JsNull => s.source_type = "url"

C17_GetAiResponsesNewestFirst ==
  [][lastCall'.op = "getAiResponses" =>
       /\ result'.tag = "ok"
       /\ UNCHANGED <<tables, seqs>>
       /\ LET r == result'.val
              mine == rowsOf(aiAssistanceResponsesTable, lastCall'.input.id)
          IN /\ {r[i] : i \in 1..Len(r)} = mine
             /\ Len(r) = Cardinality(mine)
             /\ \A i, j \in 1..Len(r) : i < j => r[i].created_at >= r[j].created_at
             /\ (mine = {} => r = <<>>)]_vars

(* two responses of one document, stored at different times, came back     *)
(* newest first                                                            *)
C17_Witness ==
  /\ lastCall.op = "getAiResponses"
  /\ result.tag = "ok"
  /\ Len(result.val) = 2
  /\ result.val[1].created_at > result.val[2].created_at

(* ---------------------------------------------------------------------- *)
(* C18: a request is either refused by its procedure's schema, and then    *)
(* the store is as it was, or it reaches the handler, and then it has      *)
(* every required field, no empty title, name or prompt, a limit in        *)
(* 1..100, an offset of at least 0 and enum values of the enum.            *)
(* ---------------------------------------------------------------------- *)
handlerInputValid(call) ==
  LET input == call.input
  IN CASE call.op = "createUser" -> isEmail(input.email) /\ input.name # ""
       [] call.op = "createDocument" ->
            input.title # "" /\ input.user_id \in Int /\ input.content \in STRING
       [] call.op = "getDocuments" ->
            /\ input.user_id \in Int
            /\ input.limit >= 1 /\ input.limit <= 100
            /\ input.offset >= 0
       [] call.op \in {"getDocument", "deleteDocument", "getAiResponses"} ->
            input.id \in Int /\ input.user_id \in Int
       [] call.op = "updateDocument" ->
            /\ input.id \in Int
            /\ input.title = JsUndefined
                 \/ (input.title.type = "string" /\ input.title.value # "")
            /\ input.content.type \in {"undefined", "string"}
       [] call.op = "createSource" ->
            /\ input.document_id \in Int
            /\ input.title # "" /\ input.content # ""
            /\ input.source_type \in {"url", "file", "text"}
            /\ input.source_url \in {JsUndefined, JsNull}
                 \/ (input.source_url.type = "string" /\ isUrl(input.source_url.value))
       [] call.op = "getSources" -> input.document_id \in Int
       [] call.op = "deleteSource" -> input.id \in Int /\ input.document_id \in Int
       [] call.op = "requestAiAssistance" ->
            /\ input.document_id \in Int
            /\ input.prompt # ""
            /\ input.assistance_type \in {"write", "edit", "study_guide", "summarize"}
       [] call.op = "healthcheck" -> TRUE

C18_ValidatedBeforeHandler ==
  [][IF result' = Err(<<"BAD_REQUEST">>)
     THEN UNCHANGED <<tables, seqs>>
     ELSE handlerInputValid(lastCall')]_vars

(* a createDocument request with an empty title was refused while the      *)
(* store held a user and a document                                        *)
C18_Witness ==
  /\ lastCall.op = "createDocument"
  /\ result = Err(<<"BAD_REQUEST">>)
  /\ lastCall.input.title = JsString("")
  /\ lastCall.input.user_id = JsNumber(1)
  /\ usersTable # {}
  /\ documentsTable # {}

(* ---------------------------------------------------------------------- *)
(* C19: the editor never has more than one updateDocument call awaiting    *)
(* its reply.                                                              *)
(* ---------------------------------------------------------------------- *)
C19_OneSaveInFlight == Len(inFlight) <= 1

(* ---------------------------------------------------------------------- *)
(* C20: at most one auto-save timeout is pending at any time; an edit of   *)
(* the title or the content sets hasUnsavedChanges, sends nothing to the   *)
(* server and leaves one pending timeout, due 2 time units later; a        *)
(* timeout runs the save only when hasUnsavedChanges is true and at least  *)
(* 2 time units have passed since the latest edit.                         *)
(* ---------------------------------------------------------------------- *)
C20_DebouncedSave ==
  /\ [](Cardinality(timers) <= 1)
  /\ [][lastCall'.op \in {"handleContentChange", "handleTitleChange"} =>
          /\ hasUnsavedChanges'
          /\ inFlight' = inFlight
          /\ UNCHANGED <<tables, seqs>>
          /\ timers' = {now + 2}]_vars
  /\ [][lastCall'.op = "timeout" =>
          /\ hasUnsavedChanges
          /\ lastEdit # JsNull
          /\ now - lastEdit.value >= 2]_vars

(* the timeout ran 2 time units after the latest edit and sent the save *)
C20_Witness ==
  /\ lastCall.op = "timeout"
  /\ now = lastEdit.value + 2
  /\ Len(inFlight) = 1
  /\ isSaving

(* the fields of a document record *)
isDocument(d) ==
  (DOMAIN d) = {"id", "title", "content", "user_id", "created_at", "updated_at"}

(* ---------------------------------------------------------------------- *)
(* C21: every save that is started ends: while a call is in flight, a      *)
(* reply eventually arrives, and the step that handles the reply, be it    *)
(* the record, null or a failure, leaves isSaving false, hasUnsavedChanges *)
(* false and lastSaved set to the time of the reply, and has passed        *)
(* onUpdate a document record with the id that was sent.                   *)
(* ---------------------------------------------------------------------- *)
C21_SaveEnds ==
  /\ [][lastCall'.op = "updateDocument" =>
          /\ ~isSaving'
          /\ ~hasUnsavedChanges'
          /\ lastSaved' = JsDate(now')
          /\ selectedDocument' # Null
          /\ isDocument(selectedDocument')
          /\ selectedDocument'.id = lastCall'.input.id
          /\ Len(inFlight') = Len(inFlight) - 1]_vars
  /\ (Len(inFlight) > 0) ~> (/\ lastCall.op = "updateDocument"
                             /\ ~isSaving
                             /\ ~hasUnsavedChanges
                             /\ lastSaved # JsNull)

(* a save ended on null: the document had been deleted while the call was  *)
(* in flight                                                               *)
C21_Witness ==
  /\ lastCall.op = "updateDocument"
  /\ result = Null
  /\ ~isSaving
  /\ ~hasUnsavedChanges
  /\ lastSaved = JsDate(now)
  /\ now > 0
  /\ selectedDocument # Null

(* ---------------------------------------------------------------------- *)
(* C22: when a save is answered with null or fails, the record passed to   *)
(* onUpdate has the title and the content sent in that save, the empty     *)
(* content included, and the time of the reply as its updated_at.          *)
(* ---------------------------------------------------------------------- *)
C22_FallbackRecord ==
  [][(lastCall'.op = "updateDocument" /\ result'.tag # "ok") =>
       /\ selectedDocument'.title = lastCall'.input.title.value
       /\ selectedDocument'.content = lastCall'.input.content.value
       /\ selectedDocument'.updated_at = now']_vars

(* ---------------------------------------------------------------------- *)
(* C23: without unsaved changes nothing is saved: no timeout is pending,   *)
(* no step sends an updateDocument call or sets isSaving, and only a reply *)
(* to an earlier call or the selection of a document changes lastSaved or  *)
(* the document; with unsaved changes Save Now sends at once, whatever     *)
(* time has passed since the latest edit, the call the timeout would send: *)
(* the document's id, the trimmed title or 'Untitled Document', and the    *)
(* content.                                                                *)
(* ---------------------------------------------------------------------- *)
C23_SaveOnlyUnsaved ==
  /\ [](~hasUnsavedChanges => timers = {})
  /\ [][~hasUnsavedChanges =>
          /\ Len(inFlight') <= Len(inFlight)
          /\ isSaving' => isSaving
          /\ lastCall'.op \notin {"updateDocument", "getDocument"} =>
               UNCHANGED <<lastSaved, selectedDocument>>]_vars
  /\ [][lastCall'.op \in {"handleManualSave", "timeout"} =>
          /\ hasUnsavedChanges
          /\ isSaving'
          /\ inFlight' = Append(inFlight,
               [updateData |->
                  [id |-> selectedDocument.id,
                   title |-> JsString(IF title = " " THEN "Untitled Document" ELSE title),
                   content |-> JsString(content)],
                document |-> selectedDocument])
          /\ UNCHANGED <<tables, seqs, now, hasUnsavedChanges, lastSaved>>]_vars

(* Save Now sent the call in the time unit of the edit, the timeout still  *)
(* pending                                                                 *)
C23_Witness ==
  /\ lastCall.op = "handleManualSave"
  /\ lastEdit = JsNumber(now)
  /\ timers = {now + autoSaveDelay}
  /\ Len(inFlight) = 1
  /\ inFlight[1].updateData.content = JsString(content)
  /\ isSaving

(* the words of a text with its HTML tags stripped, counted as the client  *)
(* counts them: text.replace(/<[^>]*>/g, '').split(/\s+/) without the      *)
(* empty pieces; the texts of the model are "" and one word                *)
wordCount(text) == IF text = "" THEN 0 ELSE 1

(* ---------------------------------------------------------------------- *)
(* C24: the response_content requestAiAssistance generates starts with a   *)
(* text of its own for each assistance_type; for study_guide and summarize *)
(* it contains the document's title, and for summarize also the number of  *)
(* words of the document's content with the HTML tags stripped.            *)
(* ---------------------------------------------------------------------- *)
C24_AiTemplates ==
  [][(lastCall'.op = "requestAiAssistance" /\ result'.tag = "ok") =>
       LET response == result'.val
           parts == response.response_content
       IN \A document \in {d \in documentsTable : d.id = response.document_id} :
            /\ \A r \in aiAssistanceResponsesTable' :
                 r.assistance_type # response.assistance_type =>
                   r.response_content[1] # parts[1]
            /\ response.assistance_type \in {"study_guide", "summarize"} =>
                 \E k \in DOMAIN parts : parts[k] = document.title
            /\ response.assistance_type = "summarize" =>
                 \E k \in DOMAIN parts : parts[k] = ToString(wordCount(document.content))
     ]_vars

(* ---------------------------------------------------------------------- *)
(* C25: an AI response row never changes: whatever procedure is called, a  *)
(* stored row is stored unchanged afterwards, or the call deleted its      *)
(* document; no two rows share an id, so a row with the same id is the     *)
(* same row.                                                               *)
(* ---------------------------------------------------------------------- *)
C25_AiResponseImmutable ==
  /\ [](\A r1, r2 \in aiAssistanceResponsesTable : r1.id = r2.id => r1 = r2)
  /\ [][\A r \in aiAssistanceResponsesTable :
          \/ r \in aiAssistanceResponsesTable'
          \/ /\ lastCall'.op = "deleteDocument"
             /\ lastCall'.input.id = r.document_id
             /\ \E d \in documentsTable : d.id = r.document_id
             /\ \A d \in documentsTable' : d.id # r.document_id]_vars

(* a document with a response got a second response: both rows are stored *)
C25_Witness ==
  /\ lastCall.op = "requestAiAssistance"
  /\ result.tag = "ok"
  /\ result.val.id = 2
  /\ \E r \in aiAssistanceResponsesTable :
       /\ r.id = 1
       /\ r.document_id = result.val.document_id
       /\ \E d \in documentsTable : d.id = r.document_id /\ d.updated_at >= r.created_at

(* ---------------------------------------------------------------------- *)
(* C26: when the reply to a save arrives while the editor holds unsaved    *)
(* text that differs from what that save sent (the user edited the title   *)
(* or the content while the call was in flight), the editor keeps that     *)
(* title and content and hasUnsavedChanges stays true.                     *)
(* ---------------------------------------------------------------------- *)
C26_NoEditLost ==
  [][(/\ lastCall'.op = "updateDocument"
      /\ hasUnsavedChanges
      /\ \/ JsString(content) # lastCall'.input.content
         \/ JsString(IF title = " " THEN "Untitled Document" ELSE title)
              # lastCall'.input.title) =>
       /\ content' = content
       /\ title' = title
       /\ hasUnsavedChanges']_vars

(* ---------------------------------------------------------------------- *)
(* C27: selecting another document than the one in the editor leaves the   *)
(* editor with that document's stored title and content, no unsaved        *)
(* changes and no pending timeout, so that no call for a document carries  *)
(* text typed into another one.                                            *)
(* ---------------------------------------------------------------------- *)
C27_SelectResetsEditor ==
  [][(/\ lastCall'.op = "getDocument"
      /\ result'.tag = "ok"
      /\ selectedDocument # Null
      /\ result'.val.id # selectedDocument.id) =>
       /\ title' = result'.val.title
       /\ content' = result'.val.content
       /\ ~hasUnsavedChanges'
       /\ timers' = {}]_vars

(* ---------------------------------------------------------------------- *)
(* C28: the reply to a save leaves the selection on the document that was  *)
(* selected when the reply arrived.                                        *)
(* ---------------------------------------------------------------------- *)
C28_SaveKeepsSelection ==
  [][(lastCall'.op = "updateDocument" /\ selectedDocument # Null) =>
       /\ selectedDocument' # Null
       /\ selectedDocument'.id = selectedDocument.id]_vars

(* the content the server stores for the selected document *)
storedContent == {d.content : d \in {x \in documentsTable : x.id = selectedDocument.id}}

(* ---------------------------------------------------------------------- *)
(* C29: a request for assistance adds its response to the selected         *)
(* document for write and edit, and not for study_guide and summarize;     *)
(* once a response was added to the document (by the request or by Add to  *)
(* Document) and the server does not store the new content, the content is *)
(* eventually stored by an updateDocument call, or at least on its way:    *)
(* in a call in flight, or marked by hasUnsavedChanges for the auto-save.  *)
(* ---------------------------------------------------------------------- *)
C29_AppendedContentSaved ==
  /\ [][(lastCall'.op = "requestAiAssistance" /\ selectedDocument # Null) =>
          IF lastCall'.input.assistance_type \in {"write", "edit"}
          THEN /\ selectedDocument' # Null
               /\ selectedDocument'.content # selectedDocument.content
          ELSE selectedDocument' = selectedDocument]_vars
  /\ (/\ lastCall.op \in {"requestAiAssistance", "onContentGenerated"}
      /\ selectedDocument # Null
      /\ selectedDocument.content \notin storedContent)
       ~> (\/ selectedDocument = Null
           \/ selectedDocument.content \in storedContent
           \/ hasUnsavedChanges
           \/ \E i \in 1..Len(inFlight) :
                inFlight[i].updateData.content = JsString(selectedDocument.content))

(* ---------------------------------------------------------------------- *)
(* C30: with the lookup and the insert of createSource and of              *)
(* requestAiAssistance interleaved with deleteDocument, every stored       *)
(* source and AI response references a stored document: an insert for a    *)
(* document that is still stored succeeds, an insert for a document        *)
(* deleted since the lookup fails and stores nothing, and a delete removes *)
(* the rows inserted for the document before it.                           *)
(* ---------------------------------------------------------------------- *)
C30_NoOrphanRows ==
  /\ [](\A s \in sourcesTable : \E d \in documentsTable : d.id = s.document_id)
  /\ [](\A r \in aiAssistanceResponsesTable :
          \E d \in documentsTable : d.id = r.document_id)
  /\ [][(running' # running /\ running' \subseteq running) =>
          IF \E d \in documentsTable : d.id = lastCall'.input.document_id
          THEN /\ result'.tag = "ok"
               /\ result'.val \in sourcesTable' \cup aiAssistanceResponsesTable'
               /\ result'.val \notin sourcesTable \cup aiAssistanceResponsesTable
          ELSE /\ result'.tag = "error"
               /\ UNCHANGED tables]_vars
  /\ [][(lastCall'.op = "deleteDocument" /\ result' = Ok(TRUE)) =>
          /\ rowsOf(sourcesTable', lastCall'.input.id) = {}
          /\ rowsOf(aiAssistanceResponsesTable', lastCall'.input.id) = {}]_vars

(* a source's document was deleted between the lookup and the insert: the  *)
(* insert failed and the deleted document has no source                    *)
C30_Witness ==
  /\ lastCall.op = "createSource"
  /\ result.tag = "error"
  /\ result.msg = <<"violates foreign key constraint">>
  /\ \A d \in documentsTable : d.id # lastCall.input.document_id
  /\ rowsOf(sourcesTable, lastCall.input.document_id) = {}

====
